---------------------------- MODULE Spec2Model ----------------------------
(***************************************************************************)
(* A model of the RTMP connection core of go-playground (pkg/rtmp):        *)
(*   - the chunk stream codec of chunk_stream.go (readChunkStream,         *)
(*     writeChunStream, the acknowledgement window),                       *)
(*   - the subscriber's packet queue and send loop of subscriber.go.       *)
(*                                                                         *)
(* uint32 values are pairs <<hi, lo>> of 16-bit halves, so that 32-bit     *)
(* wrap-around is computed exactly (TLC's integers stop at 2^31 - 1).      *)
(* Lengths and indices of message bodies, which the wire format limits to  *)
(* 24 bits, are plain naturals.                                            *)
(***************************************************************************)
EXTENDS Integers, Sequences, FiniteSets, TLC

----------------------------------------------------------------------------
(* uint32 arithmetic *)

W8  == 16 * 16
W16 == W8 * W8

\* the uint32 whose value is the natural n (n < 2^31)
U32(n) == <<n \div W16, n % W16>>

Zero32 == <<0, 0>>
Max32  == <<W16 - 1, W16 - 1>>

\* a + b in uint32 (wraps at 2^32)
Add32(a, b) ==
    LET lo == a[2] + b[2]
        hi == a[1] + b[1] + (lo \div W16)
    IN  <<hi % W16, lo % W16>>

Lt32(a, b) == a[1] < b[1] \/ (a[1] = b[1] /\ a[2] < b[2])
Ge32(a, b) == ~Lt32(a, b)
Gt32(a, b) == Lt32(b, a)

\* the natural value of a uint32 known to be below 2^31
Nat32(a) == a[1] * W16 + a[2]

\* a <= w + n, for uint32 a, w and a natural n < 2^31 (no wrap: the sum is
\* computed in three 16-bit digits)
LeqSum32(a, w, n) ==
    LET lo  == w[2] + (n % W16)
        hi  == w[1] + (n \div W16) + (lo \div W16)
        top == hi \div W16
    IN  top > 0 \/ ~Lt32(<<hi % W16, lo % W16>>, a)

----------------------------------------------------------------------------
(* byte order *)

\* putU32BE: the 4 big-endian bytes of a uint32
PutU32BE(v) == <<v[1] \div W8, v[1] % W8, v[2] \div W8, v[2] % W8>>

\* binary.BigEndian.Uint32 of the first 4 bytes of b
BigEndianUint32(b) == <<b[1] * W8 + b[2], b[3] * W8 + b[4]>>

----------------------------------------------------------------------------
(* program constants *)

MsgSetChunkSize              == 1
MsgAcknowledgement           == 3
MsgWindowAcknowledgementSize == 5
MsgAudioMessage              == 8
MsgVideoMessage              == 9
MsgAMF3DataMessage           == 15
MSGAMF0DataMessage           == 18

DefaultLocalChunkSize      == 128
DefaultRemoteChunkSize     == 128
DefaultRemoteWindowAckSize == 250000

----------------------------------------------------------------------------
(* bounds of the model *)

\* messages handed to onReadChunkStreamSucc in the acknowledgement model
MaxAckMsgs == 4

----------------------------------------------------------------------------
VARIABLES
    \* Conn (rtmp.go Server, chunk_stream.go)
    remoteChunkSize,      \* uint32
    remoteWindowAckSize,  \* uint32
    bytesRecv,            \* uint32
    bytesRecvReset,       \* wrap counter
    ackSeqNumber,         \* uint32
    connState,            \* "open" | "panic": the connection task's fate
    \* history of the connection (not program state)
    lastMsg,              \* the message last handed to onReadChunkStreamSucc
    ackLog,               \* the Acknowledgement writes: [val, ok]
    totalRecv,            \* sum of the lengths of all reassembled messages
    nRecv,                \* number of messages handed to onReadChunkStreamSucc
    windowSet,            \* a Window Acknowledgement Size message was received
    \* subscriber (subscriber.go)
    avPktQueue,           \* the channel's buffer, oldest packet first
    baseTimeStamp,        \* uint32
    lastAudioTimeStamp,   \* uint32
    lastVideoTimeStamp,   \* uint32
    subCs,                \* playingCycle's cs: [TimeStamp, MsgTypeID]
    subPc,                \* playingCycle: "run" | "stopped"
    pubPc,                \* the publisher in avPktEnQueue: "idle" | "recv" | "handle"
    dropI,                \* dropAvPkt's i
    dropPkt,              \* dropAvPkt's pkt
    \* history of the subscriber (not program state)
    nEnq,                 \* packets passed to avPktEnQueue so far
    nCalls,               \* calls of avPktEnQueue since the initial state
    nSent,                \* packets written by playingCycle so far
    lastOut,              \* the last packet written: [id, typ, ts, pubTs]
    lastTsOut,            \* [audio, video]: timestamp of the last message of the type
    firstPubTs,           \* publisher timestamp of the first packet written
    \* the read side of the connection (chunk_stream.go)
    wire,                 \* bytes the peer has sent and the reader has not consumed
    chunks,               \* c.chunks: csid -> ChunkStream
    rpc,                  \* readChunkStream: "basic" | "msghdr" | "body" | "deliver"
    cur,                  \* the basic header of the chunk being read
    \* history of the read side (not program state)
    nChunks,              \* chunks begun
    msgStart,             \* csid -> [len, n]: the length stated when the message
                          \* in the slot began, and the body bytes read since
    \* a sender writing to this reader (writeChunStream)
    rtMsg,                \* the ChunkStream to write
    rtPc,                 \* "idle" | "write" | "written" | "failed"
    rtFlush,              \* the number of bytes written at each Flush
    \* a peer that sends messages as chunks in the format of the protocol
    peer,                 \* what it has sent so far
    \* publisher.publishingCycle
    pubCyc,               \* its position, packet and the calls it has made
    \* weightroundrobin (rtmp.go)
    wrr                   \* the balancer's nodes, and the results of its Get calls

connVars == <<remoteChunkSize, remoteWindowAckSize, bytesRecv, bytesRecvReset,
              ackSeqNumber, connState>>
connHist == <<lastMsg, ackLog, totalRecv, nRecv, windowSet>>

subVars == <<avPktQueue, baseTimeStamp, lastAudioTimeStamp, lastVideoTimeStamp,
             subCs, subPc, pubPc, dropI, dropPkt>>
subHist == <<nEnq, nCalls, nSent, lastOut, lastTsOut, firstPubTs>>

rdVars == <<wire, chunks, rpc, cur>>
rdHist == <<nChunks, msgStart>>
rtVars == <<rtMsg, rtPc, rtFlush>>
extVars == <<peer, pubCyc, wrr>>

vars == <<connVars, connHist, subVars, subHist, rdVars, rdHist, rtVars, extVars>>

NoMsg == [MsgTypeID |-> 0, MsgLength |-> 0, ChunkBody |-> <<>>]

\* Server(): the connection as constructed
ServerInit ==
    /\ remoteChunkSize = U32(DefaultRemoteChunkSize)
    /\ remoteWindowAckSize = U32(DefaultRemoteWindowAckSize)
    /\ bytesRecv = Zero32
    /\ bytesRecvReset = 0
    /\ ackSeqNumber = Zero32
    /\ connState = "open"
    /\ lastMsg = NoMsg
    /\ ackLog = <<>>
    /\ totalRecv = 0
    /\ nRecv = 0
    /\ windowSet = FALSE

----------------------------------------------------------------------------
(* Conn.ack and Conn.onReadChunkStreamSucc *)

\* ack's first half: bytesRecv += size, reset when it reads 1<<32 - 1
AckBytesRecv(br, size) ==
    LET s == Add32(br, size)
    IN  IF Ge32(s, Max32) THEN Zero32 ELSE s

AckBytesRecvWraps(br, size) == Ge32(Add32(br, size), Max32)

\* ack's window test: the accumulated value against the remote window
AckDueMut(acc, window) == Gt32(acc, window)
AckDue(acc, window) == Ge32(acc, window)

\* ackSeqNumber after ack(): reset once the Acknowledgement was attempted
AckSeqAfter(acc, window) == IF AckDue(acc, window) THEN Zero32 ELSE acc

\* the window and chunk size a reassembled message sets
OnSuccChunkSizeMut(cs, old) == old
OnSuccChunkSize(cs, old) ==
    IF cs.MsgTypeID = MsgSetChunkSize THEN BigEndianUint32(cs.ChunkBody) ELSE old

OnSuccWindow(cs, old) ==
    IF cs.MsgTypeID = MsgWindowAcknowledgementSize
    THEN BigEndianUint32(cs.ChunkBody) ELSE old

\* binary.BigEndian.Uint32 panics on a body shorter than 4 bytes
OnSuccPanics(cs) ==
    /\ cs.MsgTypeID \in {MsgSetChunkSize, MsgWindowAcknowledgementSize}
    /\ Len(cs.ChunkBody) < 4

\* onReadChunkStreamSucc(cs); writeOk is whether writeChunStream of the
\* Acknowledgement (if one is due) succeeds
OnReadChunkStreamSucc(cs, writeOk) ==
    IF OnSuccPanics(cs)
    THEN /\ connState' = "panic"
         /\ lastMsg' = cs
         /\ nRecv' = nRecv + 1
         /\ UNCHANGED <<remoteChunkSize, remoteWindowAckSize, bytesRecv,
                        bytesRecvReset, ackSeqNumber, ackLog, totalRecv,
                        windowSet>>
    ELSE LET window == OnSuccWindow(cs, remoteWindowAckSize)
             size   == U32(cs.MsgLength)
             acc    == Add32(ackSeqNumber, size)
         IN  /\ remoteChunkSize' = OnSuccChunkSize(cs, remoteChunkSize)
             /\ remoteWindowAckSize' = window
             /\ bytesRecv' = AckBytesRecv(bytesRecv, size)
             /\ bytesRecvReset' = IF AckBytesRecvWraps(bytesRecv, size)
                                  THEN bytesRecvReset + 1 ELSE bytesRecvReset
             /\ ackSeqNumber' = AckSeqAfter(acc, window)
             /\ ackLog' = IF AckDue(acc, window)
                          THEN Append(ackLog, [val |-> acc, ok |-> writeOk])
                          ELSE ackLog
             /\ totalRecv' = totalRecv + cs.MsgLength
             /\ lastMsg' = cs
             /\ nRecv' = nRecv + 1
             /\ windowSet' = (windowSet \/ cs.MsgTypeID = MsgWindowAcknowledgementSize)
             /\ UNCHANGED connState

----------------------------------------------------------------------------
(* subscriber.go: the packet queue, dropAvPkt and playingCycle *)

\* configured capacity of a subscriber's queue (newSubscriber's avQueueSize)
QueueSize == 85

\* avPktEnQueue calls made after the initial state
MaxEnq == 1

Kinds == {"audio", "video", "key", "seq", "meta"}

\* an av.Packet: the flags publishingCycle and the FLV demuxer set, and the
\* publisher's timestamp; id is the packet's rank among the packets passed
\* to avPktEnQueue (history)
Pkt(id, kind, ts) ==
    [id |-> id,
     IsAudio |-> kind = "audio",
     IsVideo |-> kind \in {"video", "key", "seq"},
     IsMetaData |-> kind = "meta",
     IsSeq |-> kind = "seq",
     IsKeyFrame |-> kind = "key",
     TimeStamp |-> ts]

NoPkt == Pkt(0, "none", Zero32)

\* newSubscriber(c, avQueueSize): the channel's capacity and avPktQueueSize
NewSubscriberMut(avQueueSize) ==
    [cap |-> avQueueSize + avQueueSize, avPktQueueSize |-> avQueueSize + avQueueSize]
NewSubscriber(avQueueSize) ==
    [cap |-> avQueueSize, avPktQueueSize |-> avQueueSize]

Sub == NewSubscriber(QueueSize)

None32 == <<-1, -1>>

\* no sender: the state of the sender's variables in the specifications
\* that are not about it
NoSender ==
    /\ rtMsg = <<>>
    /\ rtPc = "idle"
    /\ rtFlush = <<>>
    /\ peer = <<>>
    /\ pubCyc = <<>>
    /\ wrr = <<>>

\* no subscriber: the state of the subscriber's variables in the
\* specifications that are not about it
NoSubscriber ==
    /\ avPktQueue = <<>>
    /\ baseTimeStamp = Zero32
    /\ lastAudioTimeStamp = Zero32
    /\ lastVideoTimeStamp = Zero32
    /\ subCs = [TimeStamp |-> Zero32, MsgTypeID |-> 0]
    /\ subPc = "stopped"
    /\ pubPc = "idle"
    /\ dropI = 0
    /\ dropPkt = NoPkt
    /\ nEnq = 0
    /\ nCalls = 0
    /\ nSent = 0
    /\ lastOut = [id |-> 0, typ |-> 0, ts |-> Zero32, pubTs |-> Zero32]
    /\ lastTsOut = [audio |-> None32, video |-> None32]
    /\ firstPubTs = None32

\* avPktEnQueue's test: the queue is long enough to trim
TrimNeededMut(len, size) == len >= size - 24
TrimNeededLate(len, size) == len > size - 23
TrimNeeded(len, size) == len > size - 24

\* avPktEnQueue(pkt).  A send on a full channel blocks (the action is not
\* enabled).
AvPktEnQueueMut(pkt) ==
    /\ pubPc = "idle"
    /\ Len(avPktQueue) < Sub.cap
    /\ avPktQueue' = Append(avPktQueue, pkt)
    /\ IF TrimNeeded(Len(avPktQueue), Sub.avPktQueueSize)
       THEN pubPc' = "recv" /\ dropI' = 0
       ELSE UNCHANGED <<pubPc, dropI>>
    /\ nEnq' = nEnq + 1
    /\ nCalls' = nCalls + 1
    /\ UNCHANGED <<baseTimeStamp, lastAudioTimeStamp, lastVideoTimeStamp, subCs,
                   subPc, dropPkt, nSent, lastOut, lastTsOut, firstPubTs>>
AvPktEnQueue(pkt) ==
    /\ pubPc = "idle"
    /\ IF TrimNeeded(Len(avPktQueue), Sub.avPktQueueSize)
       THEN /\ pubPc' = "recv"              \* dropAvPkt(); pkt is not queued
            /\ dropI' = 0
            /\ UNCHANGED avPktQueue
       ELSE /\ Len(avPktQueue) < Sub.cap
            /\ avPktQueue' = Append(avPktQueue, pkt)
            /\ UNCHANGED <<pubPc, dropI>>
    /\ nEnq' = nEnq + 1
    /\ nCalls' = nCalls + 1
    /\ UNCHANGED <<baseTimeStamp, lastAudioTimeStamp, lastVideoTimeStamp, subCs,
                   subPc, dropPkt, nSent, lastOut, lastTsOut, firstPubTs>>

\* dropAvPkt, line 80-81: the loop test and the receive, which blocks on an
\* empty channel (the action is not enabled)
DropAvPktRecv ==
    /\ pubPc = "recv"
    /\ IF dropI < Sub.avPktQueueSize - 84
       THEN /\ avPktQueue # <<>>
            /\ dropPkt' = Head(avPktQueue)
            /\ avPktQueue' = Tail(avPktQueue)
            /\ pubPc' = "handle"
            /\ UNCHANGED dropI
       ELSE /\ pubPc' = "idle"
            /\ UNCHANGED <<avPktQueue, dropPkt, dropI>>
    /\ UNCHANGED <<baseTimeStamp, lastAudioTimeStamp, lastVideoTimeStamp, subCs,
                   subPc, subHist>>

\* the queue after dropAvPkt's switch on the packet received (line 86-104)
DropAvPktSwitchMut(q, pkt, size) ==
    CASE pkt.IsAudio ->
            IF Len(q) > size - 2 THEN Tail(q) ELSE Append(q, pkt)
      [] OTHER -> q
DropAvPktSwitch(q, pkt, size) ==
    CASE pkt.IsAudio ->
            IF Len(q) > size - 2 THEN Tail(q) ELSE Append(q, pkt)
      [] pkt.IsVideo ->
            LET q1 == IF pkt.IsSeq \/ pkt.IsKeyFrame THEN Append(q, pkt) ELSE q
            IN  IF Len(q1) > size - 10 THEN Tail(q1) ELSE q1
      [] OTHER -> q

\* dropAvPkt, line 86-104, and i++
DropAvPktHandle ==
    /\ pubPc = "handle"
    /\ LET q == DropAvPktSwitch(avPktQueue, dropPkt, Sub.avPktQueueSize)
       IN  /\ Len(q) <= Sub.cap
           /\ avPktQueue' = q
    /\ dropI' = dropI + 1
    /\ pubPc' = "recv"
    /\ dropPkt' = NoPkt
    /\ UNCHANGED <<baseTimeStamp, lastAudioTimeStamp, lastVideoTimeStamp, subCs,
                   subPc, subHist>>

\* playingCycle's switch: the message type of a packet
PlayingMsgTypeID(pkt, old) ==
    CASE pkt.IsVideo -> MsgVideoMessage
      [] pkt.IsAudio -> MsgAudioMessage
      [] pkt.IsMetaData -> MSGAMF0DataMessage
      [] OTHER -> old

\* playingCycle, line 52: the timestamp of the outgoing message
PlayingTimeStampMut(csTs, base, pkt) == pkt.TimeStamp
PlayingTimeStamp(csTs, base, pkt) == Add32(csTs, base)

\* recordTimeStamp(cs): [lastAudioTimeStamp, lastVideoTimeStamp, baseTimeStamp]
RecordTimeStamp(cs, la, lv) ==
    LET lv1 == IF cs.MsgTypeID = MsgVideoMessage THEN cs.TimeStamp ELSE lv
        la1 == IF cs.MsgTypeID = MsgAudioMessage THEN cs.TimeStamp ELSE la
    IN  [audio |-> la1, video |-> lv1,
         base |-> IF Gt32(la1, lv1) THEN la1 ELSE lv1]

\* the call of recordTimeStamp: on every outgoing packet, with the message
\* written
RecordOnSend(cs) == RecordTimeStamp(cs, lastAudioTimeStamp, lastVideoTimeStamp)

\* one turn of playingCycle's loop: receive a packet (blocks on an empty
\* channel) and write it; a failed write ends the loop
PlayingCycle ==
    /\ subPc = "run"
    /\ avPktQueue # <<>>
    /\ LET pkt == Head(avPktQueue)
           cs  == [TimeStamp |-> PlayingTimeStamp(subCs.TimeStamp, baseTimeStamp, pkt),
                   MsgTypeID |-> PlayingMsgTypeID(pkt, subCs.MsgTypeID)]
           rec == RecordOnSend(cs)
       IN  /\ avPktQueue' = Tail(avPktQueue)
           /\ subCs' = cs
           /\ \E writeOk \in BOOLEAN :
                IF writeOk
                THEN /\ nSent' = nSent + 1
                     /\ lastOut' = [id |-> pkt.id, typ |-> cs.MsgTypeID,
                                    ts |-> cs.TimeStamp, pubTs |-> pkt.TimeStamp]
                     /\ lastTsOut' =
                          [audio |-> IF cs.MsgTypeID = MsgAudioMessage
                                     THEN cs.TimeStamp ELSE lastTsOut.audio,
                           video |-> IF cs.MsgTypeID = MsgVideoMessage
                                     THEN cs.TimeStamp ELSE lastTsOut.video]
                     /\ firstPubTs' = IF nSent = 0 THEN pkt.TimeStamp ELSE firstPubTs
                     /\ lastAudioTimeStamp' = rec.audio
                     /\ lastVideoTimeStamp' = rec.video
                     /\ baseTimeStamp' = rec.base
                     /\ UNCHANGED subPc
                ELSE /\ subPc' = "stopped"
                     /\ UNCHANGED <<nSent, lastOut, lastTsOut, firstPubTs,
                                    lastAudioTimeStamp, lastVideoTimeStamp,
                                    baseTimeStamp>>
    /\ UNCHANGED <<pubPc, dropI, dropPkt, nEnq, nCalls>>

----------------------------------------------------------------------------
(* chunk_stream.go: byte helpers *)

Reverse(b) == [i \in 1..Len(b) |-> b[Len(b) + 1 - i]]

\* byteSliceAsUint / ReadUint, big endian, of 1 to 4 bytes
UintBE(b) ==
    CASE Len(b) = 1 -> <<0, b[1]>>
      [] Len(b) = 2 -> <<0, b[1] * W8 + b[2]>>
      [] Len(b) = 3 -> <<b[1], b[2] * W8 + b[3]>>
      [] Len(b) = 4 -> <<b[1] * W8 + b[2], b[3] * W8 + b[4]>>

\* byteSliceAsUint / ReadUint, little endian
UintLE(b) == UintBE(Reverse(b))

\* writeUint(val, nbytes, bigEndian): the low nbytes bytes of val
WriteUintBE(val, nbytes) == SubSeq(PutU32BE(val), 5 - nbytes, 4)
WriteUintLE(val, nbytes) == SubSeq(Reverse(PutU32BE(val)), 1, nbytes)

\* 0xffffff
TimeStampEscape == U32(16777215)

----------------------------------------------------------------------------
(* chunk_stream.go: reading *)

\* newChunkStream(), with the basic header readChunkStream stores in it
NewChunkStream(basicHdr) ==
    [Fmt |-> basicHdr.Fmt, Csid |-> basicHdr.Csid,
     TimeStamp |-> Zero32, MsgLength |-> 0, MsgTypeID |-> 0,
     MsgStreamID |-> Zero32, ExtendedTimeStamp |-> Zero32,
     ChunkBody |-> <<>>, msgHdrSize |-> 0, timeExtended |-> FALSE,
     gotBodyFull |-> FALSE, bodyIndex |-> 0, bodyRemain |-> 0]

\* no reader: the state of the read side in the specifications that are not
\* about it
NoReader ==
    /\ wire = <<>>
    /\ chunks = <<>>
    /\ rpc = "basic"
    /\ cur = [Fmt |-> 0, Csid |-> 0]
    /\ nChunks = 0
    /\ msgStart = <<>>

\* readChunkBasicHeader: the number of bytes of the basic header that
\* starts with byte h
BasicHeaderSize(h) ==
    CASE h % 64 = 0 -> 2
      [] h % 64 = 1 -> 3
      [] OTHER -> 1

\* readChunkBasicHeader on the bytes b of a whole basic header
ReadChunkBasicHeader(b) ==
    [Fmt |-> b[1] \div 64,
     Csid |-> CASE b[1] % 64 = 0 -> Nat32(UintLE(SubSeq(b, 2, 2))) + 64
                [] b[1] % 64 = 1 -> Nat32(UintLE(SubSeq(b, 2, 3))) + 64
                [] OTHER -> b[1] % 64]

\* readChunkMessageHeader, line 621-630
MsgHdrSize(fmt) ==
    CASE fmt = 0 -> 11
      [] fmt = 1 -> 7
      [] fmt = 2 -> 3
      [] OTHER -> 0

\* whether readChunkMessageHeader reads (or peeks at) 4 more bytes after the
\* message header: a type 3 chunk on a slot whose header had the escape
ReadsExtended(cs, fmt) ==
    /\ fmt = 3
    /\ cs.timeExtended
    /\ cs.bodyRemain # 0 \/ cs.Fmt \in {0, 1, 2}

\* bytes readChunkMessageHeader needs on the wire
MsgHdrNeed(cs, fmt) == MsgHdrSize(fmt) + (IF ReadsExtended(cs, fmt) THEN 4 ELSE 0)

\* setRemainFlag and its inlined copies: a new message begins in the slot
BeginBodyMut(cs) ==
    [cs EXCEPT !.gotBodyFull = FALSE,
               !.bodyRemain = cs.MsgLength,
               !.ChunkBody = [i \in 1..cs.MsgLength |-> 0]]
BeginBody(cs) ==
    [cs EXCEPT !.gotBodyFull = FALSE, !.bodyIndex = 0,
               !.bodyRemain = cs.MsgLength,
               !.ChunkBody = [i \in 1..cs.MsgLength |-> 0]]

\* readChunkMessageHeader, line 647-676: a type 0, 1 or 2 header in buf
ReadHeaderFmt012(cs, fmt, buf) ==
    LET ext == UintBE(SubSeq(buf, 1, 3))
        timeExtended == Ge32(ext, TimeStampEscape)
        ts == IF timeExtended THEN cs.TimeStamp
              ELSE CASE cs.Fmt = 0 -> ext
                     [] cs.Fmt \in {1, 2} -> Add32(cs.TimeStamp, ext)
                     [] OTHER -> cs.TimeStamp
        hdr == [cs EXCEPT
                  !.ExtendedTimeStamp = ext,
                  !.timeExtended = timeExtended,
                  !.TimeStamp = ts,
                  !.MsgLength = IF fmt <= 1 THEN Nat32(UintBE(SubSeq(buf, 4, 6)))
                                ELSE cs.MsgLength,
                  !.MsgTypeID = IF fmt <= 1 THEN buf[7] ELSE cs.MsgTypeID,
                  !.MsgStreamID = IF fmt = 0 THEN UintLE(SubSeq(buf, 8, 11))
                                  ELSE cs.MsgStreamID]
    IN  BeginBody(hdr)

\* readChunkMessageHeader, line 678-695: a type 3 chunk that begins a message;
\* w holds the 4 bytes read if the slot's header had the escape
ReadHeaderFmt3New(cs, w) ==
    LET ts == CASE cs.Fmt = 0 ->
                     IF cs.timeExtended THEN UintBE(SubSeq(w, 1, 4)) ELSE cs.TimeStamp
                [] cs.Fmt \in {1, 2} ->
                     Add32(cs.TimeStamp,
                           IF cs.timeExtended THEN UintBE(SubSeq(w, 1, 4))
                           ELSE cs.ExtendedTimeStamp)
                [] OTHER -> cs.TimeStamp
    IN  BeginBody([cs EXCEPT !.TimeStamp = ts])

\* readChunkMessageHeader, line 696-707: whether a type 3 chunk inside a
\* message discards the 4 bytes it peeked at
DiscardsPeeked(cs, w) == UintBE(SubSeq(w, 1, 4)) = cs.TimeStamp

\* readChunkMessageHeader(cs, fmt) on the wire w: the slot afterwards and
\* the number of bytes consumed
ReadChunkMessageHeaderMut(cs0, fmt, w) ==
    LET cs == [cs0 EXCEPT !.msgHdrSize = MsgHdrSize(fmt)]
    IN  IF fmt <= 2
        THEN [cs |-> ReadHeaderFmt012(cs, fmt, SubSeq(w, 1, MsgHdrSize(fmt))),
              used |-> MsgHdrSize(fmt)]
        ELSE [cs |-> ReadHeaderFmt3New(cs, w),
              used |-> IF ReadsExtended(cs, fmt) THEN 4 ELSE 0]
ReadChunkMessageHeader(cs0, fmt, w) ==
    LET cs == [cs0 EXCEPT !.msgHdrSize = MsgHdrSize(fmt)]
    IN  IF fmt <= 2
        THEN [cs |-> ReadHeaderFmt012(cs, fmt, SubSeq(w, 1, MsgHdrSize(fmt))),
              used |-> MsgHdrSize(fmt)]
        ELSE IF cs.bodyRemain = 0
        THEN [cs |-> ReadHeaderFmt3New(cs, w),
              used |-> IF ReadsExtended(cs, fmt) THEN 4 ELSE 0]
        ELSE [cs |-> cs,
              used |-> IF cs.timeExtended /\ DiscardsPeeked(cs, w) THEN 4 ELSE 0]

\* readChunkMessageBody, line 715-718: the size of this chunk's body
ChunkBodySize(remain, chunkSize) ==
    IF Gt32(U32(remain), chunkSize) THEN Nat32(chunkSize) ELSE remain

\* readChunkMessageBody, line 727: the message is complete
BodyFullMut(remain) == remain <= 2
BodyFull(remain) == remain = 0

\* readChunkMessageBody(cs) once Read returned the size bytes b
ReadChunkMessageBody(cs, b) ==
    LET nr == Len(b)
    IN  [cs EXCEPT
           !.ChunkBody = [i \in 1..Len(cs.ChunkBody) |->
                            IF i > cs.bodyIndex /\ i <= cs.bodyIndex + nr
                            THEN b[i - cs.bodyIndex] ELSE cs.ChunkBody[i]],
           !.bodyIndex = cs.bodyIndex + nr,
           !.bodyRemain = cs.bodyRemain - nr,
           !.gotBodyFull = IF BodyFull(cs.bodyRemain - nr) THEN TRUE
                           ELSE cs.gotBodyFull]

\* the buffered reader (not in this repository's files): Read returns
\* exactly the bytes asked for, and blocks until the peer has sent them
Available(n) == Len(wire) >= n

\* readChunkStream, line 537-547: the basic header, and the slot of its csid
ReadBasic ==
    /\ rpc = "basic"
    /\ connState = "open"
    /\ Available(1)
    /\ Available(BasicHeaderSize(wire[1]))
    /\ LET size == BasicHeaderSize(wire[1])
           basicHdr == ReadChunkBasicHeader(SubSeq(wire, 1, size))
           known == basicHdr.Csid \in DOMAIN chunks
       IN  /\ cur' = basicHdr
           /\ wire' = SubSeq(wire, size + 1, Len(wire))
           /\ chunks' = IF known THEN chunks
                        ELSE [c \in DOMAIN chunks \cup {basicHdr.Csid} |->
                                IF c = basicHdr.Csid THEN NewChunkStream(basicHdr)
                                ELSE chunks[c]]
           /\ msgStart' = IF known THEN msgStart
                          ELSE [c \in DOMAIN chunks \cup {basicHdr.Csid} |->
                                  IF c = basicHdr.Csid THEN [len |-> 0, n |-> 0]
                                  ELSE msgStart[c]]
    /\ rpc' = "msghdr"
    /\ nChunks' = nChunks + 1
    /\ UNCHANGED <<connVars, connHist, subVars, subHist, rtVars, extVars>>

\* the length the chunk's header states for the message it begins: the
\* length field of a type 0 or 1 header, and otherwise the length of the
\* chunk stream's previous message
StatedLength(fmt, w, old) ==
    IF fmt <= 1 THEN (w[4] * W8 + w[5]) * W8 + w[6] ELSE old

\* the longest message body the model represents
MaxBody == 512

\* the header on the wire states a length the model represents
HeaderFits == StatedLength(cur.Fmt, wire, chunks[cur.Csid].MsgLength) <= MaxBody

\* readChunkStream, line 549: readChunkMessageHeader
ReadMsgHdr ==
    /\ rpc = "msghdr"
    /\ Available(MsgHdrNeed(chunks[cur.Csid], cur.Fmt))
    /\ HeaderFits
    /\ LET cs == chunks[cur.Csid]
           r  == ReadChunkMessageHeader(cs, cur.Fmt, wire)
           begins == cur.Fmt <= 2 \/ cs.bodyRemain = 0
       IN  /\ chunks' = [chunks EXCEPT ![cur.Csid] = r.cs]
           /\ wire' = SubSeq(wire, r.used + 1, Len(wire))
           /\ msgStart' = IF begins
                          THEN [msgStart EXCEPT ![cur.Csid] =
                                  [len |-> StatedLength(cur.Fmt, wire, cs.MsgLength),
                                   n |-> 0]]
                          ELSE msgStart
    /\ rpc' = "body"
    /\ UNCHANGED <<cur, nChunks, connVars, connHist, subVars, subHist, rtVars, extVars>>

\* readChunkStream, line 553-557: readChunkMessageBody
ReadBody ==
    /\ rpc = "body"
    /\ LET cs == chunks[cur.Csid]
           size == ChunkBodySize(cs.bodyRemain, remoteChunkSize)
       IN  /\ Available(size)
           /\ LET cs1 == ReadChunkMessageBody(cs, SubSeq(wire, 1, size))
              IN  /\ chunks' = [chunks EXCEPT ![cur.Csid] = cs1]
                  /\ rpc' = IF cs1.gotBodyFull THEN "deliver" ELSE "basic"
           /\ wire' = SubSeq(wire, size + 1, Len(wire))
           /\ msgStart' = [msgStart EXCEPT ![cur.Csid].n = @ + size]
    /\ UNCHANGED <<cur, nChunks, connVars, connHist, subVars, subHist, rtVars, extVars>>

\* readChunkStream, line 557-560: the message is complete:
\* onReadChunkStreamSucc, and the slot is returned to the caller, which calls
\* readChunkStream again
Deliver ==
    /\ rpc = "deliver"
    /\ \E writeOk \in BOOLEAN : OnReadChunkStreamSucc(chunks[cur.Csid], writeOk)
    /\ rpc' = "basic"
    /\ UNCHANGED <<wire, chunks, cur, nChunks, msgStart, subVars, subHist, rtVars, extVars>>

----------------------------------------------------------------------------
(* chunk_stream.go: writing *)

\* writeChunStream, line 737-742: the csid by message type
WriteCsid(cs) ==
    CASE cs.MsgTypeID = MsgAudioMessage -> 4
      [] cs.MsgTypeID \in {MsgVideoMessage, MsgAMF3DataMessage, MSGAMF0DataMessage} -> 6
      [] OTHER -> cs.Csid

\* writeHeader, line 940-954: the basic header
WriteBasicHeader(fmt, csid) ==
    IF csid < 64 THEN <<fmt * 64 + csid>>
    ELSE IF csid - 64 < W8 THEN <<fmt * 64>> \o WriteUintLE(U32(csid - 64), 1)
    ELSE IF csid - 64 < W16 THEN <<fmt * 64 + 1>> \o WriteUintLE(U32(csid - 64), 2)
    ELSE <<>>

\* writeHeader, line 956-984: the message header, and the extended timestamp
\* written when ts, after the clamp of a type 0, 1 or 2 header, is above the
\* escape
WriteMessageHeader(cs) ==
    LET ts == IF cs.Fmt # 3 /\ Gt32(cs.TimeStamp, TimeStampEscape)
              THEN TimeStampEscape ELSE cs.TimeStamp
    IN  (IF cs.Fmt <= 2 THEN WriteUintBE(ts, 3) ELSE <<>>)
        \o (IF cs.Fmt <= 1
            THEN WriteUintBE(U32(cs.MsgLength), 3) \o <<cs.MsgTypeID>> ELSE <<>>)
        \o (IF cs.Fmt = 0 THEN WriteUintLE(cs.MsgStreamID, 4) ELSE <<>>)
        \o (IF Gt32(ts, TimeStampEscape) THEN WriteUintBE(cs.TimeStamp, 4) ELSE <<>>)

\* writeHeader(cs): the bytes written
WriteHeader(cs) == WriteBasicHeader(cs.Fmt, cs.Csid) \o WriteMessageHeader(cs)

\* writeChunStream's loop from chunk i on: the bytes written
RECURSIVE WriteChunks(_, _, _, _)
WriteChunks(cs, chunkSize, i, totalLen) ==
    IF i > cs.MsgLength \div chunkSize \/ totalLen = cs.MsgLength THEN <<>>
    ELSE LET start == i * chunkSize
             leftLen == Len(cs.ChunkBody) - start
             inc == IF leftLen < chunkSize THEN leftLen ELSE chunkSize
         IN  WriteHeader([cs EXCEPT !.Fmt = IF i = 0 THEN 0 ELSE 3])
             \o SubSeq(cs.ChunkBody, start + 1, start + inc)
             \o WriteChunks(cs, chunkSize, i + 1, totalLen + inc)

\* writeChunStream(cs) with c.localChunksize = chunkSize: the bytes written
WriteChunStream(cs, chunkSize) ==
    WriteChunks([cs EXCEPT !.Csid = WriteCsid(cs)], chunkSize, 0, 0)

\* writeChunStream's loop from chunk i on, with n bytes written so far: the
\* number of bytes written at each readWriter.Flush() (line 775), which
\* follows the body of each chunk
RECURSIVE WriteFlushes(_, _, _, _, _)
WriteFlushes(cs, chunkSize, i, totalLen, n) ==
    IF i > cs.MsgLength \div chunkSize \/ totalLen = cs.MsgLength THEN <<>>
    ELSE LET start == i * chunkSize
             leftLen == Len(cs.ChunkBody) - start
             inc == IF leftLen < chunkSize THEN leftLen ELSE chunkSize
             m == n + Len(WriteHeader([cs EXCEPT !.Fmt = IF i = 0 THEN 0 ELSE 3])) + inc
         IN  <<m>> \o WriteFlushes(cs, chunkSize, i + 1, totalLen + inc, m)

\* a connection of this program writes rtMsg to the reader
RtWrite ==
    /\ rtPc = "write"
    /\ wire' = wire \o WriteChunStream(rtMsg, DefaultLocalChunkSize)
    /\ rtFlush' = WriteFlushes([rtMsg EXCEPT !.Csid = WriteCsid(rtMsg)],
                               DefaultLocalChunkSize, 0, 0, 0)
    /\ rtPc' = "written"
    /\ UNCHANGED <<rtMsg, chunks, rpc, cur, rdHist, connVars, connHist, extVars,
                   subVars, subHist>>

----------------------------------------------------------------------------
(* The acknowledgement window on its own: the messages readChunkStream     *)
(* reassembles are drawn from AckMsgs.  Bodies of audio messages are not   *)
(* read by onReadChunkStreamSucc and are left out.                         *)

AckLens == {0, 1, DefaultRemoteWindowAckSize - 1, DefaultRemoteWindowAckSize,
            DefaultRemoteWindowAckSize + 1}

AckWindows == {Zero32, U32(1), U32(DefaultRemoteWindowAckSize), Max32}

\* chunk sizes the peer sets: 0, 2 and 0x01000000
AckChunkSizes == {Zero32, U32(2), U32(16777216)}

AckMsgs ==
    {[MsgTypeID |-> MsgAudioMessage, MsgLength |-> n, ChunkBody |-> <<>>] :
        n \in AckLens}
    \cup {[MsgTypeID |-> MsgWindowAcknowledgementSize, MsgLength |-> 4,
           ChunkBody |-> PutU32BE(w)] : w \in AckWindows}
    \cup {[MsgTypeID |-> MsgSetChunkSize, MsgLength |-> 4,
           ChunkBody |-> PutU32BE(n)] : n \in AckChunkSizes}
    \cup {[MsgTypeID |-> MsgWindowAcknowledgementSize, MsgLength |-> 2,
           ChunkBody |-> <<0, 0>>]}

\* readChunkStream found a message complete
AckRecvMsg ==
    /\ connState = "open"
    /\ nRecv < MaxAckMsgs
    /\ \E cs \in AckMsgs, writeOk \in BOOLEAN : OnReadChunkStreamSucc(cs, writeOk)
    /\ UNCHANGED <<subVars, subHist, rdVars, rdHist, rtVars, extVars>>

AckInit == ServerInit /\ NoSubscriber /\ NoReader /\ NoSender
AckNext == AckRecvMsg
SpecAck == AckInit /\ [][AckNext]_vars

\* sum of the values of the Acknowledgements that reached the peer
RECURSIVE SumSent(_)
SumSent(log) ==
    IF log = <<>> THEN 0
    ELSE (IF log[1].ok THEN Nat32(log[1].val) ELSE 0) + SumSent(Tail(log))

\* the Acknowledgement written by the last step, if any
AckWritten == Len(ackLog') = Len(ackLog) + 1

C10_AckPacing == LeqSum32(bytesRecv, remoteWindowAckSize, SumSent(ackLog))

\* every Acknowledgement write so far succeeded
AllWritesOk == \A i \in 1..Len(ackLog) : ackLog[i].ok

\* the pacing bound holds as long as no Acknowledgement write has failed
AckPacingWhileWritesOk == AllWritesOk => C10_AckPacing

\* C12 as stated: remoteChunkSize is within 1..16777215 after any sequence
\* of received messages.
C12_ChunkSizeInRange ==
    /\ Ge32(remoteChunkSize, U32(1))
    /\ Ge32(U32(16777215), remoteChunkSize)

----------------------------------------------------------------------------
(* A subscriber with its publisher and its playingCycle task.  The initial *)
(* queue is empty or holds the packets of earlier avPktEnQueue calls that  *)
(* playingCycle has not yet received: two packets of any kind, then        *)
(* inter frames, up to the length at which avPktEnQueue trims.             *)

\* publisher timestamps: 40 ms apart, or restarting at 0
PubTimeStamps(id) == {U32(40 * id), Zero32}

PrefillLen == Sub.avPktQueueSize - 23

Prefill(n, kind1, kind2) ==
    [i \in 1..n |-> Pkt(i, IF i = 1 THEN kind1 ELSE IF i = 2 THEN kind2 ELSE "video",
                        U32(40 * i))]

SubInit ==
    /\ \/ avPktQueue = <<>> /\ nEnq = 0
       \/ \E kind1 \in Kinds, kind2 \in Kinds :
            /\ avPktQueue = Prefill(PrefillLen, kind1, kind2)
            /\ nEnq = PrefillLen
    /\ baseTimeStamp = Zero32
    /\ lastAudioTimeStamp = Zero32
    /\ lastVideoTimeStamp = Zero32
    /\ subCs = [TimeStamp |-> Zero32, MsgTypeID |-> 0]
    /\ subPc = "run"
    /\ pubPc = "idle"
    /\ dropI = 0
    /\ dropPkt = NoPkt
    /\ nCalls = 0
    /\ nSent = 0
    /\ lastOut = [id |-> 0, typ |-> 0, ts |-> Zero32, pubTs |-> Zero32]
    /\ lastTsOut = [audio |-> None32, video |-> None32]
    /\ firstPubTs = None32

\* dispatchAVPacket passes the publisher's next packet to avPktEnQueue
Publish ==
    /\ nCalls < MaxEnq
    /\ \E kind \in Kinds, ts \in PubTimeStamps(nEnq + 1) :
         AvPktEnQueue(Pkt(nEnq + 1, kind, ts))
    /\ UNCHANGED <<connVars, connHist, rdVars, rdHist, rtVars, extVars>>

DropRecv == DropAvPktRecv /\ UNCHANGED <<connVars, connHist, rdVars, rdHist, rtVars, extVars>>
DropHandle == DropAvPktHandle /\ UNCHANGED <<connVars, connHist, rdVars, rdHist, rtVars, extVars>>
Play == PlayingCycle /\ UNCHANGED <<connVars, connHist, rdVars, rdHist, rtVars, extVars>>

SubNext == Publish \/ DropRecv \/ DropHandle \/ Play
SubSpecInit == ServerInit /\ SubInit /\ NoReader /\ NoSender
SpecSub == SubSpecInit /\ [][SubNext]_vars

\* the publisher waits on the queue: dropAvPkt is at its receive and the
\* channel is empty
PublisherWaits ==
    /\ pubPc = "recv"
    /\ dropI < Sub.avPktQueueSize - 84
    /\ avPktQueue = <<>>

\* C4 as stated: avPktEnQueue, dropAvPkt included, never waits on the queue.
C4_PublisherNeverWaits == ~PublisherWaits

\* C5: the queue never holds more packets than the configured capacity.
C5_QueueBound == Len(avPktQueue) <= QueueSize

\* C5 witness: the queue at the length where avPktEnQueue trims, and a trim
\* has run
C5_Witness ==
    /\ Len(avPktQueue) = QueueSize - 23
    /\ pubPc = "recv"
    /\ dropI > 0

\* C6 as stated: packets are written to the peer in the order they were
\* passed to avPktEnQueue.
C6_OrderPreserved ==
    [][nSent' = nSent + 1 => lastOut'.id > lastOut.id]_vars

\* a - b in uint32 (wraps at 2^32)
Sub32(a, b) ==
    LET lo == a[2] - b[2]
        hi == a[1] - b[1] - (IF lo < 0 THEN 1 ELSE 0)
    IN  <<hi % W16, lo % W16>>

\* C6 witness: a packet written after dropAvPkt has run
C6_Witness == nSent > 0 /\ dropI > 0

\* C7: the timestamps of the audio messages playingCycle writes never
\* decrease, and neither do those of the video messages.
C7_MonotonicPerType ==
    [][ nSent' = nSent + 1 =>
          /\ (lastOut'.typ = MsgAudioMessage /\ lastTsOut.audio # None32)
                => Ge32(lastOut'.ts, lastTsOut.audio)
          /\ (lastOut'.typ = MsgVideoMessage /\ lastTsOut.video # None32)
                => Ge32(lastOut'.ts, lastTsOut.video)
    ]_vars

\* C7 witness: a second audio message written, of a packet whose publisher
\* timestamp is below that of the audio packet written before it
C7_Witness ==
    /\ nSent >= 2
    /\ lastOut.typ = MsgAudioMessage
    /\ lastOut.pubTs = Zero32
    /\ lastOut.id > 1

\* C8 as stated: the first packet written carries timestamp 0 and every later
\* one its publisher timestamp minus that of the first packet written.
C8_Rebased ==
    [][ nSent' = nSent + 1 =>
          lastOut'.ts = IF nSent = 0 THEN Zero32
                        ELSE Sub32(lastOut'.pubTs, firstPubTs)
    ]_vars

\* the packets of a queue
InQueue(q) == {q[i] : i \in 1..Len(q)}

\* dropAvPkt has handled the packet it received
TrimHandled == pubPc = "handle" /\ pubPc' = "recv"

C14_TrimKeepsMetaData ==
    [][ TrimHandled =>
          \A p \in InQueue(avPktQueue) \cup {dropPkt} :
              p.IsMetaData => p \in InQueue(avPktQueue')
    ]_vars

\* avPktEnQueue is called in this step
EnQueueCalled == nCalls' = nCalls + 1

\* avPktEnQueue has put its packet at the back of the queue and returned
EnQueuedNormally ==
    /\ Len(avPktQueue') = Len(avPktQueue) + 1
    /\ SubSeq(avPktQueue', 1, Len(avPktQueue)) = avPktQueue
    /\ avPktQueue'[Len(avPktQueue')].id = nEnq'
    /\ pubPc' = "idle"

\* avPktEnQueue has entered dropAvPkt with the queue as it was
EnteredTrim == pubPc' = "recv" /\ dropI' = 0 /\ avPktQueue' = avPktQueue

\* C23 as stated: avPktEnQueue queues the packet if the queue length is
\* below Q - 24 and trims at every length from Q - 24 on.
C23_EnqueueThresholdStated ==
    [][ EnQueueCalled =>
          IF Len(avPktQueue) < Sub.avPktQueueSize - 24
          THEN EnQueuedNormally ELSE EnteredTrim ]_vars

\* C23 as amended: avPktEnQueue queues the packet if the queue length is at
\* most Q - 24 and trims at every length from Q - 23 on.
C23_EnqueueThreshold ==
    [][ EnQueueCalled =>
          IF Len(avPktQueue) <= Sub.avPktQueueSize - 24
          THEN EnQueuedNormally ELSE EnteredTrim ]_vars

\* C23 witness: avPktEnQueue has queued a packet when the queue held exactly
\* Q - 24 packets
C23_Witness ==
    /\ nCalls = 1
    /\ pubPc = "idle"
    /\ Len(avPktQueue) = Sub.avPktQueueSize - 23
    /\ avPktQueue[Len(avPktQueue)].id = nEnq
    /\ nSent = 1

\* dropAvPkt, line 87 and 96: the test of a discard is true for the packet
\* received
DropBranchTaken ==
    \/ dropPkt.IsAudio /\ Len(avPktQueue) > Sub.avPktQueueSize - 2
    \/ /\ dropPkt.IsVideo
       /\ Len(avPktQueue) + (IF dropPkt.IsSeq \/ dropPkt.IsKeyFrame THEN 1 ELSE 0)
            > Sub.avPktQueueSize - 10

\* C27: with avPktEnQueue the only sender, the queue never holds more than
\* Q - 23 packets, whatever playingCycle does, and no step of dropAvPkt
\* finds the test of a discard (len > Q - 2, len > Q - 10) true.
C27_TrimBranchesDead ==
    /\ [](Len(avPktQueue) <= Sub.avPktQueueSize - 23)
    /\ [][TrimHandled => ~DropBranchTaken]_vars

\* C27 witness: the queue holds Q - 23 packets after dropAvPkt received an
\* audio packet from a queue of that length and requeued it
C27_Witness ==
    /\ pubPc = "recv"
    /\ dropI > 0
    /\ nSent = 0
    /\ Len(avPktQueue) = Sub.avPktQueueSize - 23
    /\ avPktQueue[Len(avPktQueue)].id = 1
    /\ avPktQueue[Len(avPktQueue)].IsAudio

\* C28: a call of avPktEnQueue made when the queue holds more than Q - 24
\* packets leaves the queue as it is, without the packet passed to it, and
\* until dropAvPkt returns every packet in the queue, and the packet
\* dropAvPkt holds, was in the queue or held by dropAvPkt before the step:
\* when the call returns the queue holds only packets it held before the
\* call.
C28_TrimmedPacketNotQueued ==
    [][ /\ (EnQueueCalled /\ Len(avPktQueue) > Sub.avPktQueueSize - 24) =>
              /\ avPktQueue' = avPktQueue
              /\ \A p \in InQueue(avPktQueue') : p.id # nEnq'
        /\ pubPc # "idle" =>
              /\ InQueue(avPktQueue') \subseteq InQueue(avPktQueue) \cup {dropPkt}
              /\ dropPkt' \in InQueue(avPktQueue) \cup {dropPkt, NoPkt}
    ]_vars

\* C28 witness: a call of avPktEnQueue made at Q - 23 packets has returned,
\* and the queue holds none but packets of earlier calls
C28_Witness ==
    /\ pubPc = "idle"
    /\ nCalls = 1
    /\ dropI = Sub.avPktQueueSize - 84
    /\ nEnq = PrefillLen + 1
    /\ avPktQueue # <<>>
    /\ \A p \in InQueue(avPktQueue) : p.id <= PrefillLen

----------------------------------------------------------------------------
(* dropAvPkt on any content of the channel.  The channel has room for      *)
(* avPktQueueSize packets (newSubscriber); here it holds that many or one  *)
(* less when avPktEnQueue is called, and playingCycle does not run.        *)

TrimLengths == {Sub.cap - 1, Sub.cap}

TrimSubInit ==
    /\ \E n \in TrimLengths, kind1 \in Kinds, kind2 \in Kinds :
         /\ avPktQueue = Prefill(n, kind1, kind2)
         /\ nEnq = n
    /\ baseTimeStamp = Zero32
    /\ lastAudioTimeStamp = Zero32
    /\ lastVideoTimeStamp = Zero32
    /\ subCs = [TimeStamp |-> Zero32, MsgTypeID |-> 0]
    /\ subPc = "stopped"
    /\ pubPc = "idle"
    /\ dropI = 0
    /\ dropPkt = NoPkt
    /\ nCalls = 0
    /\ nSent = 0
    /\ lastOut = [id |-> 0, typ |-> 0, ts |-> Zero32, pubTs |-> Zero32]
    /\ lastTsOut = [audio |-> None32, video |-> None32]
    /\ firstPubTs = None32

TrimInit == ServerInit /\ TrimSubInit /\ NoReader /\ NoSender
TrimNext == Publish \/ DropRecv \/ DropHandle
SpecTrim == TrimInit /\ [][TrimNext]_vars

TrimAudioRequeued ==
    [][ (TrimHandled /\ dropPkt.IsAudio
           /\ Len(avPktQueue) <= Sub.avPktQueueSize - 2) =>
          avPktQueue' = Append(avPktQueue, dropPkt) ]_vars

----------------------------------------------------------------------------
(* The reader and a peer that sends any bytes.  The peer sends, whenever   *)
(* the reader waits for bytes, the fragment the reader's next read asks    *)
(* for: every byte stream splits into such fragments.  The fragments are   *)
(* basic headers of every format on two chunk streams, message headers    *)
(* with a timestamp field below or at the escape and a length of zero or   *)
(* of more than one chunk, and, where the reader reads or peeks at four    *)
(* more bytes, the slot's timestamp or body bytes.                         *)

\* chunks the reader begins
MaxChunks == 3

PeerCsids == {3, 64}
PeerTimeStamps == {U32(2), TimeStampEscape}
PeerLengths == {0, DefaultRemoteChunkSize + 2}
PeerStreamID == U32(1)

\* the body bytes the peer sends on a chunk stream
PeerFill(csid, n) == [i \in 1..n |-> csid % W8]

\* bytes the reader's next read waits for
ReaderNeed ==
    CASE rpc = "basic" -> IF wire = <<>> THEN 1 ELSE BasicHeaderSize(wire[1])
      [] rpc = "msghdr" -> MsgHdrNeed(chunks[cur.Csid], cur.Fmt)
      [] rpc = "body" -> ChunkBodySize(chunks[cur.Csid].bodyRemain, remoteChunkSize)
      [] OTHER -> 0

PeerMsgHeaders(fmt) ==
    {SubSeq(WriteUintBE(ts, 3) \o WriteUintBE(U32(len), 3) \o <<MsgAudioMessage>>
            \o WriteUintLE(PeerStreamID, 4), 1, MsgHdrSize(fmt)) :
        ts \in PeerTimeStamps, len \in PeerLengths}

PeerFragments ==
    CASE rpc = "basic" ->
           {WriteBasicHeader(f, c) : f \in 0..3, c \in PeerCsids}
      [] rpc = "msghdr" /\ cur.Fmt <= 2 -> PeerMsgHeaders(cur.Fmt)
      [] rpc = "msghdr" /\ cur.Fmt = 3 ->
           {PutU32BE(chunks[cur.Csid].TimeStamp), PeerFill(cur.Csid, 4)}
      [] OTHER -> {PeerFill(cur.Csid, ReaderNeed)}

\* the peer sends what the reader's next read still lacks
PeerSend ==
    /\ connState = "open"
    /\ Len(wire) < ReaderNeed
    /\ rpc = "basic" => nChunks < MaxChunks
    /\ \E f \in PeerFragments :
         /\ Len(f) > Len(wire)
         /\ wire' = wire \o SubSeq(f, Len(wire) + 1, Len(f))
    /\ UNCHANGED <<chunks, rpc, cur, rdHist, rtVars, extVars, connVars, connHist,
                   subVars, subHist>>

ReadInit == ServerInit /\ NoSubscriber /\ NoReader /\ NoSender
ReadNext == PeerSend \/ ReadBasic \/ ReadMsgHdr \/ ReadBody \/ Deliver
SpecRead == ReadInit /\ [][ReadNext]_vars

\* C1: when readChunkStream hands a message upstream, the body bytes read
\* from the wire into the slot since the message's first chunk number
\* exactly the length that chunk's header stated, and fill the body buffer.
C1_ReassemblyComplete ==
    rpc = "deliver" =>
        LET cs == chunks[cur.Csid]
        IN  /\ cs.gotBodyFull
            /\ msgStart[cur.Csid].n = msgStart[cur.Csid].len
            /\ cs.bodyIndex = msgStart[cur.Csid].len
            /\ Len(cs.ChunkBody) = msgStart[cur.Csid].len

\* C11 as stated: a type 0, 1 or 2 chunk on a chunk stream whose slot has
\* bodyRemain # 0 ends the read loop with an error.
C11_MalformedHeaderFatal ==
    [][ (rpc = "msghdr" /\ rpc' # "msghdr" /\ cur.Fmt <= 2
           /\ chunks[cur.Csid].bodyRemain # 0) => rpc' = "error"
    ]_vars

\* the header fields of a slot that a continuation chunk must leave alone
HeaderFields(cs) ==
    <<cs.TimeStamp, cs.MsgLength, cs.MsgTypeID, cs.MsgStreamID, cs.timeExtended>>

\* C21: a type 3 chunk read while its slot's message is in flight leaves the
\* slot's timestamp, MsgLength, MsgTypeID, MsgStreamID and timeExtended as
\* they were and keeps the body buffer and the bytes already in it: reading
\* its header changes none of them nor the cursors, and reading its body
\* only moves bodyIndex forward and bodyRemain down by the same amount.
C21_ContinuationFrame ==
    [][ /\ (rpc = "msghdr" /\ rpc' = "body" /\ cur.Fmt = 3
               /\ chunks[cur.Csid].bodyRemain > 0) =>
              LET a == chunks[cur.Csid]
                  b == chunks'[cur.Csid]
              IN  /\ HeaderFields(b) = HeaderFields(a)
                  /\ b.ChunkBody = a.ChunkBody
                  /\ b.bodyIndex = a.bodyIndex
                  /\ b.bodyRemain = a.bodyRemain
        /\ (rpc = "body" /\ rpc' # "body" /\ cur.Fmt = 3
               /\ chunks[cur.Csid].bodyIndex > 0) =>
              LET a == chunks[cur.Csid]
                  b == chunks'[cur.Csid]
              IN  /\ HeaderFields(b) = HeaderFields(a)
                  /\ Len(b.ChunkBody) = Len(a.ChunkBody)
                  /\ SubSeq(b.ChunkBody, 1, a.bodyIndex) = SubSeq(a.ChunkBody, 1, a.bodyIndex)
                  /\ b.bodyIndex > a.bodyIndex
                  /\ b.bodyIndex + b.bodyRemain = a.bodyIndex + a.bodyRemain
    ]_vars

\* C21 witness: the second chunk of a message, a type 3 chunk on a slot whose
\* header had the escape, has been read and completed the message
C21_Witness ==
    /\ rpc = "deliver"
    /\ cur.Fmt = 3
    /\ chunks[cur.Csid].timeExtended
    /\ chunks[cur.Csid].bodyIndex > Nat32(remoteChunkSize)

\* C1 witness: a message of more than one chunk is handed upstream while a
\* message of another chunk stream is part read
C1_Witness ==
    /\ rpc = "deliver"
    /\ msgStart[cur.Csid].n > Nat32(remoteChunkSize)
    /\ \E c \in DOMAIN chunks :
         c # cur.Csid /\ chunks[c].bodyIndex > 0 /\ chunks[c].bodyRemain > 0

\* C2: in every slot, bodyIndex + bodyRemain = MsgLength, and gotBodyFull
\* implies bodyRemain = 0.
C2_SlotInvariant ==
    \A c \in DOMAIN chunks :
        /\ chunks[c].bodyIndex + chunks[c].bodyRemain = chunks[c].MsgLength
        /\ chunks[c].gotBodyFull => chunks[c].bodyRemain = 0

\* C2 witness: after a chunk's body was read, one slot is part read and
\* another holds a complete message of more than one chunk
C2_Witness ==
    /\ rpc = "basic"
    /\ \E c \in DOMAIN chunks, d \in DOMAIN chunks :
         /\ chunks[c].bodyIndex > 0 /\ chunks[c].bodyRemain > 0
         /\ d # c /\ chunks[d].gotBodyFull
         /\ chunks[d].bodyIndex > Nat32(remoteChunkSize)

----------------------------------------------------------------------------
(* Round trip: one connection of this program writes a message with        *)
(* writeChunStream, a second one reads the bytes with readChunkStream.     *)
(* Both have the chunk size Server() sets.                                 *)

\* body bytes beyond one chunk
MaxExtra == 2

RtTimeStamps == {Zero32, U32(1000), U32(16777214), TimeStampEscape,
                 U32(16777216), Max32}
RtLengths == {0, 1, DefaultLocalChunkSize} \cup
             {DefaultLocalChunkSize + n : n \in 1..MaxExtra}
RtTypes == {MsgAudioMessage, MsgVideoMessage, 20}
RtStreamIDs == {U32(1), U32(258)}
RtBodies(n) == {[i \in 1..n |-> i % W8], [i \in 1..n |-> 0]}

RtMsgs ==
    {[NewChunkStream([Fmt |-> 0, Csid |-> 3]) EXCEPT
        !.TimeStamp = T, !.MsgLength = L, !.MsgTypeID = M, !.MsgStreamID = S,
        !.ChunkBody = B] :
        T \in RtTimeStamps, L \in RtLengths, M \in RtTypes, S \in RtStreamIDs,
        B \in UNION {RtBodies(n) : n \in RtLengths}}

RtInit ==
    /\ ServerInit /\ NoSubscriber /\ NoReader
    /\ peer = <<>>
    /\ pubCyc = <<>>
    /\ wrr = <<>>
    /\ rtMsg \in {m \in RtMsgs : Len(m.ChunkBody) = m.MsgLength}
    /\ rtPc = "write"
    /\ rtFlush = <<>>

RtNext == RtWrite \/ ReadBasic \/ ReadMsgHdr \/ ReadBody \/ Deliver
SpecRT == RtInit /\ [][RtNext]_vars

\* the message read is the message written
SameMessage(cs, m) ==
    /\ cs.TimeStamp = m.TimeStamp
    /\ cs.MsgLength = m.MsgLength
    /\ cs.MsgTypeID = m.MsgTypeID
    /\ cs.MsgStreamID = m.MsgStreamID
    /\ cs.ChunkBody = m.ChunkBody

\* the reader has read all it can of what was written
ReaderDone == rtPc = "written" /\ ~ENABLED (ReadBasic \/ ReadMsgHdr \/ ReadBody \/ Deliver)

RoundTrips ==
    /\ nRecv >= 1 => SameMessage(lastMsg, rtMsg)
    /\ ReaderDone => nRecv = 1 /\ wire = <<>>

\* C3 as stated: a message of one byte or more written by writeChunStream
\* is read back by readChunkStream with the same timestamp, length, type,
\* stream id and body, and nothing else is read.
C3_RoundTrip == rtMsg.MsgLength >= 1 => RoundTrips

\* the round trip of a message whose timestamp is below the escape
RoundTripBelowEscape ==
    (rtMsg.MsgLength >= 1 /\ Lt32(rtMsg.TimeStamp, TimeStampEscape)) => RoundTrips

\* a message of more than one chunk with a timestamp below the escape was
\* read back
RoundTripMultiChunk ==
    /\ nRecv = 1
    /\ ReaderDone
    /\ rtMsg.MsgLength > DefaultLocalChunkSize
    /\ rtMsg.TimeStamp = U32(1000)

\* writeChunStream has written and the reader has read nothing yet
JustWritten == rtPc = "written" /\ nChunks = 0 /\ rpc = "basic"

\* chunks of a message of len bytes
NumChunks(len, chunkSize) == (len + chunkSize - 1) \div chunkSize

\* C25 as stated: writeChunStream flushes once for a message, after the last
\* byte of its last chunk.
C25_FlushOncePerMessage ==
    (JustWritten /\ rtMsg.MsgLength >= 1) => rtFlush = <<Len(wire)>>

\* what the code does: one flush after the body of each chunk, the last
\* after the last byte of the message
FlushAfterEachChunk ==
    (JustWritten /\ rtMsg.MsgLength >= 1) =>
        /\ Len(rtFlush) = NumChunks(rtMsg.MsgLength, DefaultLocalChunkSize)
        /\ rtFlush[Len(rtFlush)] = Len(wire)

\* C19 as stated: the type 0 chunk of a message with timestamp > 0xFFFFFF
\* has 0xFFFFFF in its timestamp field and the timestamp in the 4 bytes
\* after the 11-byte message header; the chunks of a message with timestamp
\* <= 0xFFFFFF have no extended timestamp (1-byte basic headers, a type 0
\* header and the body are all that is written).
C19_ExtendedOnSend ==
    (JustWritten /\ rtMsg.MsgLength >= 1) =>
        IF Gt32(rtMsg.TimeStamp, TimeStampEscape)
        THEN /\ Len(wire) >= 16
             /\ SubSeq(wire, 2, 4) = WriteUintBE(TimeStampEscape, 3)
             /\ SubSeq(wire, 13, 16) = PutU32BE(rtMsg.TimeStamp)
        ELSE Len(wire) = rtMsg.MsgLength + 11
                         + NumChunks(rtMsg.MsgLength, DefaultLocalChunkSize)

\* the second half of C19 alone
NoExtendedBelowEscape ==
    (JustWritten /\ rtMsg.MsgLength >= 1 /\ ~Gt32(rtMsg.TimeStamp, TimeStampEscape))
        => Len(wire) = rtMsg.MsgLength + 11
                       + NumChunks(rtMsg.MsgLength, DefaultLocalChunkSize)

----------------------------------------------------------------------------
(* publisher.publishingCycle: the loop that reads messages and passes AV   *)
(* packets to the stream source.                                           *)

\* messages publishingCycle reads
MaxPubMsgs == 3

\* message types read: Set Chunk Size, Acknowledgement, audio, video, AMF3
\* data, AMF0 data, AMF0 command
PubTypes == {MsgSetChunkSize, MsgAcknowledgement, MsgAudioMessage, MsgVideoMessage,
             MsgAMF3DataMessage, MSGAMF0DataMessage, 20}

\* publishingCycle, line 43-52: the tag of the packet, "none" for continue
PublishTagMut(typ) ==
    CASE typ = MsgAudioMessage -> "audio"
      [] typ = MsgVideoMessage -> "video"
      [] typ = MSGAMF0DataMessage -> "meta"
      [] OTHER -> "none"
PublishTag(typ) ==
    CASE typ = MsgAudioMessage -> "audio"
      [] typ = MsgVideoMessage -> "video"
      [] typ \in {MSGAMF0DataMessage, MsgAMF3DataMessage} -> "meta"
      [] OTHER -> "none"

\* publishingCycle, line 42-60: the packet made of message number n, of
\* type typ; demuxOk is whether DemuxHdr returned no error (it is only logged)
PublishPacket(n, typ, demuxOk) ==
    [n |-> n,
     IsAudio |-> PublishTag(typ) = "audio",
     IsVideo |-> PublishTag(typ) = "video",
     IsMetaData |-> PublishTag(typ) = "meta",
     demuxOk |-> demuxOk]

NoPublisher == pubCyc = <<>>

PublisherInit ==
    pubCyc = [pc |-> "read", pkt |-> PublishPacket(0, 0, TRUE), recv |-> <<>>,
              calls |-> <<>>]

\* publishingCycle, line 35-60: readChunkStream returns a message or an
\* error; the switch on its type; DemuxHdr
PubRead ==
    /\ pubCyc # <<>>
    /\ pubCyc.pc = "read"
    /\ Len(pubCyc.recv) < MaxPubMsgs
    /\ \/ pubCyc' = [pubCyc EXCEPT !.pc = "stopped"]
       \/ \E typ \in PubTypes, demuxOk \in BOOLEAN :
            LET n == Len(pubCyc.recv) + 1
            IN  pubCyc' = IF PublishTag(typ) = "none"
                          THEN [pubCyc EXCEPT !.recv = Append(@, typ)]
                          ELSE [pubCyc EXCEPT !.recv = Append(@, typ),
                                              !.pkt = PublishPacket(n, typ, demuxOk),
                                              !.pc = "cache"]
    /\ UNCHANGED <<connVars, connHist, subVars, subHist, rdVars, rdHist, rtVars, peer, wrr>>

\* publishingCycle, line 62: ss.cacheAVMetaPacket(avPkt)
PubCache ==
    /\ pubCyc # <<>>
    /\ pubCyc.pc = "cache"
    /\ pubCyc' = [pubCyc EXCEPT !.calls = Append(@, [op |-> "cache", pkt |-> pubCyc.pkt]),
                                !.pc = "dispatch"]
    /\ UNCHANGED <<connVars, connHist, subVars, subHist, rdVars, rdHist, rtVars, peer, wrr>>

\* publishingCycle, line 63: ss.dispatchAVPacket(cs, avPkt)
PubDispatch ==
    /\ pubCyc # <<>>
    /\ pubCyc.pc = "dispatch"
    /\ pubCyc' = [pubCyc EXCEPT !.calls = Append(@, [op |-> "dispatch", pkt |-> pubCyc.pkt]),
                                !.pc = "read"]
    /\ UNCHANGED <<connVars, connHist, subVars, subHist, rdVars, rdHist, rtVars, peer, wrr>>

PubInit ==
    /\ ServerInit /\ NoSubscriber /\ NoReader
    /\ rtMsg = <<>> /\ rtPc = "idle" /\ rtFlush = <<>> /\ peer = <<>> /\ wrr = <<>>
    /\ PublisherInit
PubNext == PubRead \/ PubCache \/ PubDispatch
SpecPub == PubInit /\ [][PubNext]_vars

\* the ranks, among the messages read, of the audio, video and data messages
AVRanks(recv) ==
    {i \in 1..Len(recv) :
        recv[i] \in {MsgAudioMessage, MsgVideoMessage, MSGAMF0DataMessage,
                     MsgAMF3DataMessage}}

\* the rank of the k-th audio, video or data message read
AVRank(recv, k) ==
    CHOOSE i \in AVRanks(recv) : Cardinality({j \in AVRanks(recv) : j <= i}) = k

\* the tag an audio, video or data message should get
TagOf(typ) ==
    IF typ = MsgAudioMessage THEN <<TRUE, FALSE, FALSE>>
    ELSE IF typ = MsgVideoMessage THEN <<FALSE, TRUE, FALSE>>
    ELSE <<FALSE, FALSE, TRUE>>

\* C16: the calls made are, for each audio, video or data message read and
\* in the order read, cacheAVMetaPacket and then dispatchAVPacket of one
\* packet with the one tag of the message's type; other messages cause no
\* call.
C16_PublishEveryAVMessage ==
    pubCyc # <<>> =>
      LET calls == pubCyc.calls
          nAV == Cardinality(AVRanks(pubCyc.recv))
      IN  /\ Len(calls) = CASE pubCyc.pc = "cache" -> 2 * nAV - 2
                            [] pubCyc.pc = "dispatch" -> 2 * nAV - 1
                            [] OTHER -> 2 * nAV
          /\ \A i \in 1..Len(calls) :
               LET k == (i + 1) \div 2
                   r == AVRank(pubCyc.recv, k)
                   pkt == calls[i].pkt
               IN  /\ calls[i].op = IF i % 2 = 1 THEN "cache" ELSE "dispatch"
                   /\ pkt.n = r
                   /\ <<pkt.IsAudio, pkt.IsVideo, pkt.IsMetaData>> = TagOf(pubCyc.recv[r])

\* C16 witness: a command message was skipped, then an AMF3 data message was
\* cached and dispatched as a metadata packet although DemuxHdr failed
C16_Witness ==
    /\ pubCyc # <<>>
    /\ pubCyc.pc = "read"
    /\ pubCyc.recv = <<20, MsgAMF3DataMessage>>
    /\ Len(pubCyc.calls) = 2
    /\ pubCyc.calls[2].pkt.IsMetaData
    /\ ~pubCyc.calls[2].pkt.demuxOk

----------------------------------------------------------------------------
(* The reader and a peer that sends well-formed chunks of whole messages.  *)
(* The peer begins a message on a chunk stream with a type 0 chunk         *)
(* (absolute timestamp) or, after an earlier message of the chunk stream   *)
(* or on a fresh one, with a type 1 or 2 chunk (timestamp delta), and      *)
(* continues it with type 3 chunks; messages of two chunk streams may be   *)
(* interleaved chunk by chunk.  A timestamp of 0xFFFFFF or more is sent as *)
(* the escape followed by the 4-byte value, which the peer may or may not  *)
(* repeat in each type 3 chunk of the message.  The peer sends a chunk     *)
(* when the reader waits for bytes.                                        *)

\* messages the peer begins
MaxPeerMsgs == 2

PeerAbsTimeStamps == {U32(2), U32(16777216)}
PeerDelta == U32(3)
PeerShapes == {[len |-> 1, typ |-> MsgAudioMessage],
               [len |-> 300, typ |-> MsgVideoMessage]}

\* the message stream id the peer uses on a chunk stream
PeerSid(c) == IF c = 3 THEN U32(1) ELSE U32(258)

\* the body of the peer's k-th message
PeerBody(k, len) == [i \in 1..len |-> (k * 16 + i) % W8]

\* no message begun yet on a chunk stream
NoPeerMsg ==
    [k |-> 0, prevK |-> 0, fmt |-> 0, ext |-> FALSE, Csid |-> 0, TimeStamp |-> Zero32,
     MsgLength |-> 0, MsgTypeID |-> 0, MsgStreamID |-> Zero32, reps |-> <<>>]

\* the message header of the first chunk of message m, whose timestamp
\* field holds tsv (a timestamp for type 0, a delta for types 1 and 2), and
\* the extended timestamp
PeerMsgHeader(m, tsv) ==
    LET ext == Ge32(tsv, TimeStampEscape)
        field == IF ext THEN TimeStampEscape ELSE tsv
    IN  SubSeq(WriteUintBE(field, 3) \o WriteUintBE(U32(m.MsgLength), 3)
                 \o <<m.MsgTypeID>> \o WriteUintLE(m.MsgStreamID, 4),
               1, MsgHdrSize(m.fmt))
        \o (IF ext THEN PutU32BE(tsv) ELSE <<>>)

\* the reader waits for bytes the peer has not sent, or has read a header
\* that states a length above MaxBody
ReaderBlocked ==
    /\ rpc # "deliver"
    /\ IF Len(wire) < ReaderNeed THEN TRUE ELSE rpc = "msghdr" /\ ~HeaderFits

PeerChunkLen(remain) ==
    IF remain > DefaultRemoteChunkSize THEN DefaultRemoteChunkSize ELSE remain

\* a message of a chunk stream other than c is part sent: a chunk sent on c
\* is interleaved with its chunks
PeerInFlight(c) == \E d \in PeerCsids \ {c} : peer.rem[d] > 0

\* the peer sends the first chunk of a message
PeerBegin ==
    /\ peer # <<>>
    /\ connState = "open"
    /\ ReaderBlocked
    /\ peer.nBegun < MaxPeerMsgs
    /\ \E c \in PeerCsids, fmt \in 0..2, shape \in PeerShapes,
          tsv \in PeerAbsTimeStamps \cup {PeerDelta} :
         LET prev == peer.msg[c]
             m == [k |-> peer.nBegun + 1, prevK |-> prev.k, fmt |-> fmt,
                   ext |-> Ge32(tsv, TimeStampEscape), Csid |-> c,
                   TimeStamp |-> IF fmt = 0 THEN tsv ELSE Add32(prev.TimeStamp, tsv),
                   MsgLength |-> shape.len, MsgTypeID |-> shape.typ,
                   MsgStreamID |-> IF fmt = 0 THEN PeerSid(c) ELSE prev.MsgStreamID,
                   reps |-> <<>>]
             n == PeerChunkLen(shape.len)
         IN  /\ peer.rem[c] = 0
             /\ fmt = 0 => tsv \in PeerAbsTimeStamps
             /\ fmt # 0 => tsv = PeerDelta
             /\ fmt = 1 => shape.len = 1
             /\ fmt = 2 => /\ prev.k # 0
                           /\ shape = [len |-> prev.MsgLength, typ |-> prev.MsgTypeID]
             /\ wire' = wire \o WriteBasicHeader(fmt, c) \o PeerMsgHeader(m, tsv)
                          \o SubSeq(PeerBody(m.k, shape.len), 1, n)
             /\ peer' = [peer EXCEPT !.msg[c] = m,
                                     !.rem[c] = shape.len - n,
                                     !.nBegun = @ + 1,
                                     !.plain = @ /\ ~m.ext,
                                     !.allAbs = @ /\ fmt = 0,
                                     !.mixed = @ \/ PeerInFlight(c)]
    /\ UNCHANGED <<chunks, rpc, cur, rdHist, rtVars, pubCyc, wrr, connVars, connHist,
                   subVars, subHist>>

\* the peer sends a type 3 chunk of a message it has begun; rep is whether
\* the chunk repeats the extended timestamp
PeerContinue ==
    /\ peer # <<>>
    /\ connState = "open"
    /\ ReaderBlocked
    /\ \E c \in PeerCsids, rep \in BOOLEAN :
         LET m == peer.msg[c]
             n == PeerChunkLen(peer.rem[c])
             off == m.MsgLength - peer.rem[c]
         IN  /\ peer.rem[c] > 0
             /\ rep => m.ext
             /\ wire' = wire \o WriteBasicHeader(3, c)
                          \o (IF rep THEN PutU32BE(m.TimeStamp) ELSE <<>>)
                          \o SubSeq(PeerBody(m.k, m.MsgLength), off + 1, off + n)
             /\ peer' = [peer EXCEPT !.msg[c].reps = Append(@, rep),
                                     !.rem[c] = @ - n,
                                     !.mixed = @ \/ PeerInFlight(c)]
    /\ UNCHANGED <<chunks, rpc, cur, rdHist, rtVars, pubCyc, wrr, connVars, connHist,
                   subVars, subHist>>

PeerInit ==
    /\ ServerInit /\ NoSubscriber /\ NoReader
    /\ rtMsg = <<>> /\ rtPc = "idle" /\ rtFlush = <<>> /\ pubCyc = <<>> /\ wrr = <<>>
    /\ peer = [msg |-> [c \in PeerCsids |-> NoPeerMsg],
               rem |-> [c \in PeerCsids |-> 0],
               nBegun |-> 0, plain |-> TRUE, allAbs |-> TRUE, mixed |-> FALSE]
PeerNext == PeerBegin \/ PeerContinue \/ ReadBasic \/ ReadMsgHdr \/ ReadBody \/ Deliver
SpecPeer == PeerInit /\ [][PeerNext]_vars

\* the reader hands a message upstream in this step
HandsOver == nRecv' = nRecv + 1

\* the message handed upstream is message m of the peer
IsPeerMsg(cs, m) ==
    /\ cs.Csid = m.Csid
    /\ cs.TimeStamp = m.TimeStamp
    /\ cs.MsgLength = m.MsgLength
    /\ cs.MsgTypeID = m.MsgTypeID
    /\ cs.MsgStreamID = m.MsgStreamID
    /\ cs.ChunkBody = PeerBody(m.k, m.MsgLength)

\* every chunk the peer has sent is read and every message handed upstream
PeerAllRead ==
    /\ ReaderBlocked
    /\ wire = <<>>
    /\ rpc = "basic"

\* messages the peer has sent whole
PeerComplete == peer.nBegun - Cardinality({c \in PeerCsids : peer.rem[c] > 0})

\* C15 as stated: once the peer has interleaved the chunks of messages of
\* two chunk streams, each message handed upstream has exactly its own
\* header fields and body bytes, the messages of a chunk stream are handed
\* upstream in the order of their first chunks, and none is left out.
C15_PerCsidReassembly ==
    /\ [][ (HandsOver /\ peer.mixed) =>
             /\ cur.Csid \in PeerCsids
             /\ peer.rem[cur.Csid] = 0
             /\ IsPeerMsg(lastMsg', peer.msg[cur.Csid]) ]_vars
    /\ [](peer.mixed => nRecv <= PeerComplete)
    /\ []((peer.mixed /\ ReaderBlocked /\ \A c \in PeerCsids : peer.rem[c] = 0)
            => (PeerAllRead /\ nRecv = peer.nBegun))

\* the same for the messages begun with a type 0 chunk whose timestamp is
\* below the escape
PerCsidReassemblyAbsolute ==
    /\ [][ (HandsOver /\ peer.plain /\ peer.allAbs) =>
             /\ cur.Csid \in PeerCsids
             /\ peer.rem[cur.Csid] = 0
             /\ IsPeerMsg(lastMsg', peer.msg[cur.Csid]) ]_vars
    /\ []((peer.plain /\ peer.allAbs) => nRecv <= PeerComplete)
    /\ []((peer.plain /\ peer.allAbs /\ ReaderBlocked
             /\ \A c \in PeerCsids : peer.rem[c] = 0)
            => (PeerAllRead /\ nRecv = peer.nBegun))

\* two messages of more than one chunk, interleaved, both handed upstream
InterleavedHandedOver ==
    /\ peer.plain /\ peer.allAbs /\ peer.mixed
    /\ nRecv = 2
    /\ \A c \in PeerCsids : peer.msg[c].MsgLength = 300 /\ peer.rem[c] = 0
    /\ lastMsg.Csid = 3
    /\ peer.msg[3].k = 1

\* C20 as stated: while no timestamp at or above the escape has been sent,
\* a message begun by a type 1 or 2 chunk with delta D after a message with
\* timestamp T is handed upstream with timestamp T + D, and a message begun
\* by a type 0 chunk with the timestamp of that chunk, whatever the type of
\* the first chunk of the chunk stream.
C20_DeltaTimeStamps ==
    [][ (HandsOver /\ peer.plain /\ cur.Csid \in PeerCsids) =>
           LET m == peer.msg[cur.Csid]
           IN  (m.fmt = 0 \/ m.prevK # 0) => lastMsg'.TimeStamp = m.TimeStamp
    ]_vars

\* C18 as stated: when readChunkMessageHeader has read a type 0, 1 or 2
\* header whose timestamp field is 0xFFFFFF, it has also consumed the 4
\* bytes after the header, they are the slot's timestamp (type 0) or were
\* added to it (types 1 and 2), and the body begins after them.
C18_ExtendedOnReceive ==
    [][ (rpc = "msghdr" /\ rpc' = "body" /\ cur.Fmt <= 2
           /\ UintBE(SubSeq(wire, 1, 3)) = TimeStampEscape) =>
          LET size == MsgHdrSize(cur.Fmt)
              ext == UintBE(SubSeq(wire, size + 1, size + 4))
          IN  /\ wire' = SubSeq(wire, size + 5, Len(wire))
              /\ chunks'[cur.Csid].TimeStamp =
                   IF cur.Fmt = 0 THEN ext
                   ELSE Add32(chunks[cur.Csid].TimeStamp, ext)
    ]_vars

\* the peer has sent, as its only message, 300 bytes with timestamp
\* 0x01000000 in three chunks, the second with the timestamp repeated and
\* the third without
PeerSentExample ==
    /\ peer.nBegun = 1
    /\ \E c \in PeerCsids :
         /\ peer.msg[c].k = 1
         /\ peer.msg[c].fmt = 0
         /\ peer.msg[c].MsgLength = 300
         /\ peer.msg[c].TimeStamp = U32(16777216)
         /\ peer.msg[c].reps = <<TRUE, FALSE>>
         /\ peer.rem[c] = 0

\* C17 as stated: once the reader has read what it can of that message, the
\* message has been handed upstream with its 300 body bytes and timestamp
\* 0x01000000, and no byte is left over.
C17_ExtendedContinuation ==
    (PeerSentExample /\ ReaderBlocked) =>
        /\ PeerAllRead
        /\ nRecv = 1
        /\ lastMsg.MsgLength = 300
        /\ lastMsg.ChunkBody = PeerBody(1, 300)
        /\ lastMsg.TimeStamp = U32(16777216)

----------------------------------------------------------------------------
(* The reader and a peer that changes its chunk size.  The peer sends data *)
(* messages on chunk stream 3 and Set Chunk Size messages on chunk stream  *)
(* 2, all begun by type 0 chunks with a small timestamp, a message of one  *)
(* chunk stream between the chunks of a message of the other; once it has  *)
(* sent a Set Chunk Size message it cuts every later chunk, of messages    *)
(* begun before or after, at the new size.                                 *)

\* messages the peer begins
MaxSizeMsgs == 3

SizeCsids == {2, 3}
SizeDataLengths == {60, 300}
SizeValues == {50, 4096}

\* the body of message m
SizeBody(m) ==
    IF m.MsgTypeID = MsgSetChunkSize THEN PutU32BE(U32(m.val))
    ELSE PeerBody(m.k, m.MsgLength)

NoSizeMsg ==
    [k |-> 0, fmt |-> 0, Csid |-> 0, TimeStamp |-> Zero32, MsgLength |-> 0,
     MsgTypeID |-> 0, MsgStreamID |-> Zero32, val |-> 0, at |-> 0]

SizeChunkLen(remain) == IF remain > peer.size THEN peer.size ELSE remain

\* the peer sends the first chunk of a message: data on chunk stream 3, Set
\* Chunk Size on chunk stream 2
SizeBegin ==
    /\ peer # <<>>
    /\ connState = "open"
    /\ ReaderBlocked
    /\ peer.nBegun < MaxSizeMsgs
    /\ \E c \in SizeCsids, len \in SizeDataLengths, val \in SizeValues :
         LET set == c = 2
             m == [k |-> peer.nBegun + 1, fmt |-> 0, Csid |-> c,
                   TimeStamp |-> U32(peer.nBegun + 1),
                   MsgLength |-> IF set THEN 4 ELSE len,
                   MsgTypeID |-> IF set THEN MsgSetChunkSize ELSE MsgVideoMessage,
                   MsgStreamID |-> IF set THEN Zero32 ELSE U32(1),
                   val |-> IF set THEN val ELSE 0,
                   at |-> peer.size]
             n == SizeChunkLen(m.MsgLength)
         IN  /\ peer.rem[c] = 0
             /\ set => len = 60 /\ val # peer.size
             /\ ~set => val = 50
             /\ wire' = wire \o WriteBasicHeader(0, c) \o PeerMsgHeader(m, m.TimeStamp)
                          \o SubSeq(SizeBody(m), 1, n)
             /\ peer' = [peer EXCEPT !.msg[c] = m,
                                     !.rem[c] = m.MsgLength - n,
                                     !.nBegun = @ + 1,
                                     !.size = IF set /\ m.MsgLength = n THEN val ELSE @]
    /\ UNCHANGED <<chunks, rpc, cur, rdHist, rtVars, pubCyc, wrr, connVars, connHist,
                   subVars, subHist>>

\* the peer sends a type 3 chunk of a message it has begun
SizeContinue ==
    /\ peer # <<>>
    /\ connState = "open"
    /\ ReaderBlocked
    /\ \E c \in SizeCsids :
         LET m == peer.msg[c]
             n == SizeChunkLen(peer.rem[c])
             off == m.MsgLength - peer.rem[c]
         IN  /\ peer.rem[c] > 0
             /\ wire' = wire \o WriteBasicHeader(3, c)
                          \o SubSeq(SizeBody(m), off + 1, off + n)
             /\ peer' = [peer EXCEPT !.rem[c] = @ - n,
                                     !.size = IF c = 2 /\ peer.rem[c] = n
                                              THEN m.val ELSE @]
    /\ UNCHANGED <<chunks, rpc, cur, rdHist, rtVars, pubCyc, wrr, connVars, connHist,
                   subVars, subHist>>

SizeInit ==
    /\ ServerInit /\ NoSubscriber /\ NoReader
    /\ rtMsg = <<>> /\ rtPc = "idle" /\ rtFlush = <<>> /\ pubCyc = <<>> /\ wrr = <<>>
    /\ peer = [msg |-> [c \in SizeCsids |-> NoSizeMsg],
               rem |-> [c \in SizeCsids |-> 0],
               nBegun |-> 0, size |-> DefaultRemoteChunkSize]
SizeNext == SizeBegin \/ SizeContinue \/ ReadBasic \/ ReadMsgHdr \/ ReadBody \/ Deliver
SpecSize == SizeInit /\ [][SizeNext]_vars

\* the body bytes the read of a chunk body takes off the wire
BodyRead == Len(wire) - Len(wire')

\* C22: every read of a chunk body takes min(remoteChunkSize, bodyRemain)
\* bytes with the remoteChunkSize of that moment and keeps the bytes the
\* slot already holds; a reassembled Set Chunk Size message makes its value
\* the remoteChunkSize and leaves the slots alone; every message handed
\* upstream, begun before or after the change, has exactly its MsgLength
\* body bytes, those the peer sent; and every message sent whole is handed
\* upstream.
C22_ChunkSizeChange ==
    /\ [][ (rpc = "body" /\ rpc' # "body") =>
             LET a == chunks[cur.Csid]
                 b == chunks'[cur.Csid]
             IN  /\ BodyRead = IF a.bodyRemain > Nat32(remoteChunkSize)
                               THEN Nat32(remoteChunkSize) ELSE a.bodyRemain
                 /\ b.bodyIndex = a.bodyIndex + BodyRead
                 /\ SubSeq(b.ChunkBody, 1, a.bodyIndex) = SubSeq(a.ChunkBody, 1, a.bodyIndex) ]_vars
    /\ [][ HandsOver =>
             /\ cur.Csid \in SizeCsids
             /\ peer.rem[cur.Csid] = 0
             /\ lastMsg'.MsgLength = peer.msg[cur.Csid].MsgLength
             /\ lastMsg'.MsgTypeID = peer.msg[cur.Csid].MsgTypeID
             /\ lastMsg'.ChunkBody = SizeBody(peer.msg[cur.Csid])
             /\ chunks' = chunks
             /\ remoteChunkSize' = IF lastMsg'.MsgTypeID = MsgSetChunkSize
                                   THEN U32(peer.msg[cur.Csid].val)
                                   ELSE remoteChunkSize ]_vars
    /\ []((ReaderBlocked /\ \A c \in SizeCsids : peer.rem[c] = 0)
            => (PeerAllRead /\ nRecv = peer.nBegun
                /\ remoteChunkSize = U32(peer.size)))

\* C22 witness: a 300-byte message begun with chunk size 128 is handed
\* upstream after a Set Chunk Size message to 50 was reassembled between its
\* chunks
C22_Witness ==
    /\ peer # <<>>
    /\ nRecv = 2
    /\ rpc = "basic"
    /\ lastMsg.Csid = 3
    /\ lastMsg.MsgLength = 300
    /\ peer.msg[3].k = 1
    /\ peer.msg[3].at = DefaultRemoteChunkSize
    /\ peer.msg[2].k = 2
    /\ remoteChunkSize = U32(50)

----------------------------------------------------------------------------
(* The received-bytes counter near 2^32.  The connection has received      *)
(* 2^32 - k bytes in messages of one byte, so ackSeqNumber is that number  *)
(* modulo the default window; the history variables count from there.      *)

\* k: the bytes missing to 2^32
WrapGaps == {2, 3, 4, DefaultRemoteWindowAckSize + 2}

\* (2^32 - k) % DefaultRemoteWindowAckSize, for k up to 217296
WrapAckSeq(k) == 217296 - k

WrapInit ==
    /\ \E k \in WrapGaps :
         /\ bytesRecv = Sub32(Zero32, U32(k))
         /\ ackSeqNumber = U32(WrapAckSeq(k))
    /\ remoteChunkSize = U32(DefaultRemoteChunkSize)
    /\ remoteWindowAckSize = U32(DefaultRemoteWindowAckSize)
    /\ bytesRecvReset = 0
    /\ connState = "open"
    /\ lastMsg = NoMsg
    /\ ackLog = <<>>
    /\ totalRecv = 0
    /\ nRecv = 0
    /\ windowSet = FALSE
    /\ NoSubscriber /\ NoReader /\ NoSender
WrapNext == AckRecvMsg
SpecWrap == WrapInit /\ [][WrapNext]_vars

\* adding size to the counter br reaches or passes 2^32 - 1
ReachesMax(br, size) == Ge32(U32(size), Sub32(Max32, br))

\* C26 as stated: when adding the length of a message makes the count reach
\* or pass 2^32 - 1, bytesRecv is 0 afterwards and bytesRecvReset one more;
\* otherwise bytesRecv has grown by the length and bytesRecvReset is
\* unchanged.
C26_BytesRecvWrap ==
    [][ (nRecv' = nRecv + 1 /\ connState' = "open") =>
          IF ReachesMax(bytesRecv, lastMsg'.MsgLength)
          THEN bytesRecv' = Zero32 /\ bytesRecvReset' = bytesRecvReset + 1
          ELSE /\ bytesRecv' = Add32(bytesRecv, U32(lastMsg'.MsgLength))
               /\ bytesRecvReset' = bytesRecvReset ]_vars

\* what the code does: the reset happens when the count reaches 2^32 - 1
\* exactly, and the count wraps modulo 2^32 otherwise
BytesRecvResetAtMax ==
    [][ (nRecv' = nRecv + 1 /\ connState' = "open") =>
          LET sum == Add32(bytesRecv, U32(lastMsg'.MsgLength))
          IN  IF sum = Max32
              THEN bytesRecv' = Zero32 /\ bytesRecvReset' = bytesRecvReset + 1
              ELSE bytesRecv' = sum /\ bytesRecvReset' = bytesRecvReset ]_vars

\* the count has reached 2^32 - 1 exactly and was reset
BytesRecvWasReset == bytesRecvReset = 1 /\ bytesRecv = Zero32

----------------------------------------------------------------------------
(* weightroundrobin: WeightRoundRobinBalance.Add and Get *)

\* nodes added, and the largest weight
MaxNodes == 3
MaxWeight == 2

\* Get calls made: twice the total weight
GetRounds == 2

WrrNames == {"a", "b"}

\* strconv.ParseInt(s, 10, 64) on the strings passed: the decimal numbers
\* -1..5, and "x", which is no number
WrrDigits == <<"-1", "0", "1", "2", "3", "4", "5">>
ParseInt(s) ==
    IF \E i \in 1..Len(WrrDigits) : WrrDigits[i] = s
    THEN [ok |-> TRUE, val |-> (CHOOSE i \in 1..Len(WrrDigits) : WrrDigits[i] = s) - 2]
    ELSE [ok |-> FALSE, val |-> 0]

\* the params of an Add call: a name and a weight, or a name alone
WrrParams ==
    {<<n, WrrDigits[w + 2]>> : n \in WrrNames, w \in (0 - 1)..MaxWeight}
    \cup {<<n, "x">> : n \in WrrNames} \cup {<<n>> : n \in WrrNames}

\* Add(params...): the nodes afterwards (unchanged when it returns an error)
WrrAdd(allNodes, params) ==
    IF Len(params) # 2 THEN allNodes
    ELSE IF ~ParseInt(params[2]).ok THEN allNodes
    ELSE Append(allNodes, [node |-> params[1], weight |-> ParseInt(params[2]).val,
                           currentWeight |-> 0])

\* Get, line 140-142: totalWeight after the loop
RECURSIVE WrrTotal(_)
WrrTotal(allNodes) ==
    IF allNodes = <<>> THEN 0
    ELSE allNodes[1].weight + WrrTotal(Tail(allNodes))

\* Get, line 143: every node's currentWeight after the loop
WrrBumped(allNodes) ==
    [i \in 1..Len(allNodes) |->
        [allNodes[i] EXCEPT !.currentWeight = @ + allNodes[i].weight]]

\* Get, line 145-147: bestNode after the loop, the first node with the
\* largest currentWeight (a later node replaces it only if strictly larger)
WrrBestMut(bumped) == 1
WrrBest(bumped) ==
    CHOOSE i \in 1..Len(bumped) :
        /\ \A j \in 1..Len(bumped) : bumped[j].currentWeight <= bumped[i].currentWeight
        /\ \A j \in 1..(i - 1) : bumped[j].currentWeight < bumped[i].currentWeight

\* Get(): the nodes afterwards and the result
WrrGetMut(allNodes) ==
    IF allNodes = <<>>
    THEN [allNodes |-> allNodes, idx |-> 0, node |-> "", err |-> TRUE]
    ELSE LET bumped == WrrBumped(allNodes)
             best == WrrBest(bumped)
         IN  [allNodes |-> bumped,
              idx |-> best, node |-> bumped[best].node, err |-> FALSE]
WrrGet(allNodes) ==
    IF allNodes = <<>>
    THEN [allNodes |-> allNodes, idx |-> 0, node |-> "", err |-> TRUE]
    ELSE LET bumped == WrrBumped(allNodes)
             best == WrrBest(bumped)
         IN  [allNodes |-> [bumped EXCEPT ![best].currentWeight = @ - WrrTotal(allNodes)],
              idx |-> best, node |-> bumped[best].node, err |-> FALSE]

NoBalancer == wrr = <<>>

BalancerInit == wrr = [allNodes |-> <<>>, log |-> <<>>]

\* an Add call, before the first successful Get
Add ==
    /\ wrr # <<>>
    /\ \A i \in 1..Len(wrr.log) : wrr.log[i].err
    /\ Len(wrr.allNodes) < MaxNodes
    /\ \E params \in WrrParams :
         wrr' = [wrr EXCEPT !.allNodes = WrrAdd(wrr.allNodes, params)]
    /\ UNCHANGED <<connVars, connHist, subVars, subHist, rdVars, rdHist, rtVars,
                   peer, pubCyc>>

\* the successful Get calls so far, and the failed ones
WrrSucc == SelectSeq(wrr.log, LAMBDA e : ~e.err)
WrrFailed == SelectSeq(wrr.log, LAMBDA e : e.err)

\* a Get call; n is the number of nodes it found
Get ==
    /\ wrr # <<>>
    /\ IF wrr.allNodes = <<>> THEN Len(WrrFailed) < 1
       ELSE \/ WrrSucc = <<>>
            \/ Len(WrrSucc) < GetRounds * WrrTotal(wrr.allNodes)
    /\ LET r == WrrGet(wrr.allNodes)
       IN  wrr' = [allNodes |-> r.allNodes,
                   log |-> Append(wrr.log, [idx |-> r.idx, node |-> r.node,
                                            err |-> r.err, n |-> Len(wrr.allNodes)])]
    /\ UNCHANGED <<connVars, connHist, subVars, subHist, rdVars, rdHist, rtVars,
                   peer, pubCyc>>

WrrInit ==
    /\ ServerInit /\ NoSubscriber /\ NoReader
    /\ rtMsg = <<>> /\ rtPc = "idle" /\ rtFlush = <<>>
    /\ peer = <<>> /\ pubCyc = <<>>
    /\ BalancerInit
WrrNext == Add \/ Get
SpecWRR == WrrInit /\ [][WrrNext]_vars

\* all weights positive, W their sum
AllPositive ==
    /\ wrr.allNodes # <<>>
    /\ \A i \in 1..Len(wrr.allNodes) : wrr.allNodes[i].weight > 0
W == WrrTotal(wrr.allNodes)

\* how often node i was returned in the W successful Gets after the first k * W
Returned(i, k) ==
    Cardinality({j \in (k * W + 1)..((k + 1) * W) : WrrSucc[j].idx = i})

\* C29: with positive weights summing to W, in each run of W successive
\* successful Get calls that starts after a multiple of W calls every node is
\* returned exactly as many times as its weight (and what is returned is its
\* name); a Get on a balancer without nodes returns an error.
C29_Fairness ==
    /\ \A j \in 1..Len(wrr.log) :
         wrr.log[j].n = 0 => wrr.log[j].err /\ wrr.log[j].node = ""
    /\ AllPositive =>
         \A k \in 0..(GetRounds - 1) :
            (k + 1) * W <= Len(WrrSucc) =>
               /\ \A i \in 1..Len(wrr.allNodes) : Returned(i, k) = wrr.allNodes[i].weight
               /\ \A j \in (k * W + 1)..((k + 1) * W) :
                    WrrSucc[j].node = wrr.allNodes[WrrSucc[j].idx].node

\* three nodes of unequal weights have been through two runs of W Gets, after
\* a Get on the empty balancer failed
C29_Witness ==
    /\ AllPositive
    /\ Len(wrr.allNodes) = 3
    /\ wrr.allNodes[1].weight = 1 /\ wrr.allNodes[2].weight = 2
    /\ Len(WrrSucc) = 2 * W
    /\ Len(WrrFailed) = 1

RECURSIVE WrrCurrentSum(_)
WrrCurrentSum(allNodes) ==
    IF allNodes = <<>> THEN 0
    ELSE allNodes[1].currentWeight + WrrCurrentSum(Tail(allNodes))

\* C30: after every successful Get the currentWeights sum to 0; with positive
\* weights, after every W-th Get every currentWeight is 0 again, and the node
\* returned by a Get is the one returned W Gets before.
C30_CurrentWeights ==
    /\ WrrSucc # <<>> => WrrCurrentSum(wrr.allNodes) = 0
    /\ AllPositive =>
         /\ (WrrSucc # <<>> /\ Len(WrrSucc) % W = 0) =>
               \A i \in 1..Len(wrr.allNodes) : wrr.allNodes[i].currentWeight = 0
         /\ \A j \in 1..Len(WrrSucc) :
               j + W <= Len(WrrSucc) => WrrSucc[j + W].idx = WrrSucc[j].idx

\* two nodes of weights 2 and 1: after the second period all are back at 0,
\* and in between they were not
C30_Witness ==
    /\ AllPositive
    /\ Len(wrr.allNodes) = 2
    /\ wrr.allNodes[1].weight = 2 /\ wrr.allNodes[2].weight = 1
    /\ Len(WrrSucc) = 2 * W
    /\ \A i \in 1..2 : wrr.allNodes[i].currentWeight = 0

\* in the middle of a period the currentWeights are not all 0
C30_MidPeriod ==
    /\ AllPositive
    /\ Len(WrrSucc) % W # 0
    /\ \E i \in 1..Len(wrr.allNodes) : wrr.allNodes[i].currentWeight # 0

=============================================================================
